---- MODULE Spec2Model ----
(***************************************************************************)
(* A model of revolver (github.com/kszab0/revolver): the polling change    *)
(* detector (Detect), the glob filter (Filter), the build/run pipeline     *)
(* (BuildCommand, RunCommand, Run), the configuration (ParseConfig), the   *)
(* action parser (parseActions) and the Watch loop.                        *)
(*                                                                         *)
(* Paths and patterns are sequences of one-character strings, so that the  *)
(* glob matcher works on characters as doublestar.PathMatch does: the path *)
(* a/b is <<"a","/","b">>, and a pattern is written the same way.          *)
(***************************************************************************)
EXTENDS Integers, Sequences, FiniteSets, TLC

VARIABLES
    fs,          \* the watched tree: [FilePaths -> 0..MaxTime], 0 = no such file
    rootExists,  \* whether the watch root directory exists
    excludeDirs, \* Detect's excludeDirs argument (a sequence of patterns)
    prev,        \* Detect's captured snapshot `prev` (0 = not in the map)
    changed,     \* the slice returned by the latest call of the DetectFunc
    fresh,       \* TRUE in the state right after a call of the DetectFunc
    calls,       \* number of calls of the DetectFunc so far, saturating at 2
    base,        \* history: the tree at the call the latest result (when fresh)
                 \* or else the next result is compared with
    unreadable,  \* the directories whose entries cannot be read
    wk,          \* a call of the DetectFunc whose walk is under way, entry
                 \* by entry (NoWalk when the model takes the call in one step)
    arg,         \* the arguments of a function called on its own
    ret,         \* <<>> before that function returns, <<result>> after
    config,      \* Config.Actions, the configured actions
    actions,     \* Watch's `actions`, the result of parseActions
    pc,          \* the statement Watch, or Run within it, is at
    cur,         \* the position (from 1) of the loop over actions in Watch
    bi,          \* the position (from 1) of the loop over builds in Run
    stopFuncs,   \* Watch's map from action ID to stop function
    runRet,      \* what Run returned: [stop, err]
    procs,       \* the processes run commands started, by pid:
                 \* [id, a, live, stops], a being the action that started it
    running,     \* the build commands executing now: a set of [a, k]
    trace,       \* history: the functions invoked since the latest poll
    tick         \* history: the actions evaluated and failed since then

walkVars == <<unreadable, wk>>

detectVars == <<fs, rootExists, excludeDirs, prev, changed, fresh, calls, base,
                unreadable, wk>>

callVars == <<arg, ret>>

watchVars == <<config, actions, pc, cur, bi, stopFuncs, runRet, procs, running,
               trace, tick>>

vars == <<fs, rootExists, excludeDirs, prev, changed, fresh, calls, base,
          unreadable, wk, arg, ret,
          config, actions, pc, cur, bi, stopFuncs, runRet, procs, running,
          trace, tick>>

-----------------------------------------------------------------------------
(* Bounds *)

\* modification times are 1..MaxTime
MaxTime == 2

\* Filter is called with at most MaxPatterns include patterns, as many
\* exclude patterns, and at most MaxFiles files
MaxPatterns == 2

MaxFiles == 2

\* parseActions is called with at most MaxActions actions
MaxActions == 3

\* Run is called with at most MaxBuilds build functions
MaxBuilds == 3

\* at most MaxProcs processes can be started; a further start fails
MaxProcs == 2

-----------------------------------------------------------------------------
(* Sequences of characters *)

Sep == "/"

Dot == <<".">>

\* byte order of the characters the model uses (sorting of directory entries)
Ord(c) ==
    CASE c = "*" -> 42
      [] c = "-" -> 45
      [] c = "." -> 46
      [] c = "/" -> 47
      [] c = "2" -> 50
      [] c = "?" -> 63
      [] c = "a" -> 97
      [] c = "b" -> 98
      [] c = "c" -> 99
      [] OTHER -> 127

RECURSIVE Less(_, _)
\* lexical order of two character sequences, as sort.Strings orders names
Less(s, t) ==
    IF t = <<>> THEN FALSE
    ELSE IF s = <<>> THEN TRUE
    ELSE IF Head(s) = Head(t) THEN Less(Tail(s), Tail(t))
    ELSE Ord(Head(s)) < Ord(Head(t))

RECURSIVE SortNames(_)
SortNames(S) ==
    IF S = {} THEN <<>>
    ELSE LET m == CHOOSE x \in S : \A y \in S : x = y \/ Less(x, y)
         IN  <<m>> \o SortNames(S \ {m})

RECURSIVE SplitPath(_)
\* the components of a path or pattern, split at the separator
SplitPath(s) ==
    IF \A i \in 1..Len(s) : s[i] # Sep THEN <<s>>
    ELSE LET k == CHOOSE i \in 1..Len(s) :
                      s[i] = Sep /\ \A j \in 1..(i-1) : s[j] # Sep
         IN  <<SubSeq(s, 1, k-1)>> \o SplitPath(SubSeq(s, k+1, Len(s)))

\* the path dir/name (filepath.Join); the root is the empty sequence
Join(dir, name) == IF dir = <<>> THEN name ELSE dir \o <<Sep>> \o name

IsPrefixDir(d, p) ==
    /\ Len(d) < Len(p)
    /\ SubSeq(p, 1, Len(d)) = d
    /\ p[Len(d) + 1] = Sep

-----------------------------------------------------------------------------
(* Glob matching: doublestar.PathMatch on the documented pattern grammar   *)
(* restricted to star, double star, question mark and literal characters.  *)

StarStar == <<"*", "*">>

RECURSIVE MatchComponent(_, _)
\* one pattern component against one name component
MatchComponent(p, n) ==
    IF p = <<>> THEN n = <<>>
    ELSE IF Head(p) = "*"
         THEN \/ MatchComponent(Tail(p), n)
              \/ n # <<>> /\ MatchComponent(p, Tail(n))
    ELSE IF Head(p) = "?"
         THEN n # <<>> /\ MatchComponent(Tail(p), Tail(n))
    ELSE n # <<>> /\ Head(n) = Head(p) /\ MatchComponent(Tail(p), Tail(n))

RECURSIVE DoMatching(_, _)
\* pattern components against name components; a double star spans components
DoMatching(pcs, ncs) ==
    IF pcs = <<>> /\ ncs = <<>> THEN TRUE
    ELSE IF pcs = <<>> \/ ncs = <<>> THEN FALSE
    ELSE IF Head(pcs) = StarStar
         THEN \/ Tail(pcs) = <<>>
              \/ \E k \in 1..Len(ncs) :
                     DoMatching(Tail(pcs), SubSeq(ncs, k, Len(ncs)))
    ELSE /\ MatchComponent(Head(pcs), Head(ncs))
         /\ DoMatching(Tail(pcs), Tail(ncs))

PathMatch(pattern, name) == DoMatching(SplitPath(pattern), SplitPath(name))

\* matchPatterns: does name match at least one of the patterns
matchPatterns(patterns, name) ==
    \E i \in 1..Len(patterns) : PathMatch(patterns[i], name)

-----------------------------------------------------------------------------
(* The watched tree *)

FilePaths ==
    { <<"a">>, <<"b">>,
      <<"a", "/", "a">>, <<"a", "/", "b">>,
      <<"a", "/", "b", "/", "a">> }

Times == 1..MaxTime

NoFiles == [p \in FilePaths |-> 0]

Files(tree) == {p \in FilePaths : tree[p] # 0}

\* directories exist exactly as the ancestors of files
IsDir(tree, d) == \E p \in Files(tree) : IsPrefixDir(d, p)

\* the names in directory d (the root is <<>>)
DirNames(tree, d) ==
    { Head(SplitPath(IF d = <<>> THEN p ELSE SubSeq(p, Len(d) + 2, Len(p)))) :
        p \in {q \in Files(tree) : d = <<>> \/ IsPrefixDir(d, q)} }


\* the name filepath.Rel(dir, path) gives: "." for the root itself
Rel(path) == IF path = <<>> THEN Dot ELSE path

\* no file is also a directory, and nothing exists without the root
WellFormed(tree, rootOk) ==
    /\ \A p \in Files(tree) : ~IsDir(tree, p)
    /\ ~rootOk => Files(tree) = {}

-----------------------------------------------------------------------------
(* Detect *)

\* the choices of the excludeDirs argument
ExcludeChoices ==
    { <<>>,
      << <<"a", "/", "b">> >>,
      << <<"a">> >>,
      << <<"b">>, <<"a", "/", "*">> >>,
      << <<"*">> >>,
      << Dot >> }

\* what one call of the DetectFunc has built so far, and what the walk
\* function returned last: "nil", "SkipDir" or "err"
WalkStart == [curr |-> NoFiles, changed |-> <<>>, ret |-> "nil"]

\* walkFn without the SkipDir answer: an excluded directory is walked
walkFnNoSkip(xd, pv, path, isDir, mtime, werr, st) ==
    IF werr THEN [st EXCEPT !.ret = "err"]
    ELSE IF isDir THEN [st EXCEPT !.ret = "nil"]
    ELSE [curr    |-> [st.curr EXCEPT ![path] = mtime],
          changed |-> IF pv[path] = 0 \/ pv[path] # mtime
                      THEN Append(st.changed, path)
                      ELSE st.changed,
          ret     |-> "nil"]

\* walkFn without the IsDir test: a directory is recorded like a file
walkFnDirAsFile(xd, pv, path, isDir, mtime, werr, st) ==
    IF werr THEN [st EXCEPT !.ret = "err"]
    ELSE [curr    |-> IF path \in FilePaths
                      THEN [st.curr EXCEPT ![path] = mtime]
                      ELSE st.curr,
          changed |-> IF path \notin FilePaths \/ pv[path] = 0 \/ pv[path] # mtime
                      THEN Append(st.changed, Rel(path))
                      ELSE st.changed,
          ret     |-> "nil"]

\* walkFn without the report of a name that prev does not have: only a
\* changed modification time is reported
walkFnKnownOnly(xd, pv, path, isDir, mtime, werr, st) ==
    IF werr THEN [st EXCEPT !.ret = "err"]
    ELSE IF isDir
         THEN [st EXCEPT !.ret =
                  IF matchPatterns(xd, Rel(path)) THEN "SkipDir" ELSE "nil"]
    ELSE [curr    |-> [st.curr EXCEPT ![path] = mtime],
          changed |-> IF pv[path] # 0 /\ pv[path] # mtime
                      THEN Append(st.changed, path)
                      ELSE st.changed,
          ret     |-> "nil"]

\* the function Detect hands to filepath.Walk, called on one entry
walkFn(xd, pv, path, isDir, mtime, werr, st) ==
    IF werr THEN [st EXCEPT !.ret = "err"]
    ELSE IF isDir
         THEN [st EXCEPT !.ret =
                  IF matchPatterns(xd, Rel(path)) THEN "SkipDir" ELSE "nil"]
    ELSE [curr    |-> [st.curr EXCEPT ![path] = mtime],
          changed |-> IF pv[path] = 0 \/ pv[path] # mtime
                      THEN Append(st.changed, path)
                      ELSE st.changed,
          ret     |-> "nil"]

RECURSIVE walk(_, _, _, _, _)
RECURSIVE walkNames(_, _, _, _, _, _)

\* filepath.walk on the directory d: the walk function on d itself, then
\* the entries of d in lexical order
walk(tree, xd, pv, d, st) ==
    LET st1 == walkFn(xd, pv, d, TRUE, 0, FALSE, st)
    IN  IF st1.ret # "nil" THEN st1
        ELSE walkNames(tree, xd, pv, d, SortNames(DirNames(tree, d)), st1)

walkNames(tree, xd, pv, d, names, st) ==
    IF names = <<>> THEN [st EXCEPT !.ret = "nil"]
    ELSE LET p   == Join(d, Head(names))
             dir == IsDir(tree, p)
             st1 == IF dir THEN walk(tree, xd, pv, p, st)
                    ELSE walkFn(xd, pv, p, FALSE, tree[p], FALSE, st)
         IN  IF st1.ret = "err" \/ (st1.ret = "SkipDir" /\ ~dir)
             THEN st1
             ELSE walkNames(tree, xd, pv, d, Tail(names), st1)

\* filepath.Walk(dir, ...): a root that cannot be stat-ed is reported to the
\* walk function as an error and nothing is walked
Walk(tree, rootOk, xd, pv) ==
    IF rootOk THEN walk(tree, xd, pv, <<>>, WalkStart)
    ELSE walkFn(xd, pv, <<>>, FALSE, 0, TRUE, WalkStart)

\* Deleted without the loop over prev: deletions are never reported
DeletedNone(pv, curr) == {}

\* the names of prev that are not in curr (the loop after the walk)
Deleted(pv, curr) == {p \in FilePaths : pv[p] # 0 /\ curr[p] = 0}

\* no walk under way. stack: the paths filepath.Walk has still to visit, in
\* order; curr, changed: the locals of the DetectFunc; failed: <<the entry
\* the walk function got an error for>>. History: snap, the snapshot the
\* call started with; touched, the paths changed while the walk was under way
NoWalk ==
    [active |-> FALSE, stack |-> <<>>, curr |-> NoFiles, changed |-> <<>>,
     failed |-> <<>>, touched |-> {}, snap |-> NoFiles]

\* the orders in which a range over a map may yield the keys in S
Orderings(S) ==
    {o \in [1..Cardinality(S) -> S] : \A i, j \in 1..Cardinality(S) : o[i] = o[j] => i = j}

\* the snapshot updated entry by entry from curr and never replaced: a name
\* that is gone keeps its entry
NextPrevMerged(pv, curr) ==
    [p \in FilePaths |-> IF curr[p] # 0 THEN curr[p] ELSE pv[p]]

\* the snapshot the DetectFunc keeps for its next call
NextPrev(pv, curr) == curr

Min(a, b) == IF a < b THEN a ELSE b

\* one call of the DetectFunc returned by Detect
DetectFunc ==
    LET w == Walk(fs, rootExists, excludeDirs, prev)
    IN  \E del \in Orderings(Deleted(prev, w.curr)) :
            /\ changed' = w.changed \o del
            /\ prev' = NextPrev(prev, w.curr)
            /\ UNCHANGED <<fs, rootExists, excludeDirs>>

-----------------------------------------------------------------------------
(* The environment: mutations of the watched tree *)

CreateFile(paths) ==
    \E p \in paths, t \in Times :
        /\ rootExists
        /\ fs[p] = 0
        /\ WellFormed([fs EXCEPT ![p] = t], TRUE)
        /\ fs' = [fs EXCEPT ![p] = t]
        /\ UNCHANGED rootExists

ModifyFile(paths) ==
    \E p \in paths, t \in Times :
        /\ fs[p] # 0
        /\ fs[p] # t
        /\ fs' = [fs EXCEPT ![p] = t]
        /\ UNCHANGED rootExists

DeleteFile(paths) ==
    \E p \in paths :
        /\ fs[p] # 0
        /\ fs' = [fs EXCEPT ![p] = 0]
        /\ UNCHANGED rootExists

RemoveRoot ==
    /\ rootExists
    /\ rootExists' = FALSE
    /\ fs' = NoFiles

MakeRoot ==
    /\ ~rootExists
    /\ rootExists' = TRUE
    /\ UNCHANGED fs

-----------------------------------------------------------------------------
(* A DetectFunc on its own: calls interleaved with mutations of the tree. *)
(* A call is one step here and every directory can be read; SpecWalk below *)
(* takes the walk entry by entry.                                          *)

NoCall == arg = <<>> /\ ret = <<>>

NoDetect ==
    /\ fs = NoFiles /\ rootExists = TRUE /\ excludeDirs = <<>>
    /\ prev = NoFiles /\ changed = <<>>
    /\ fresh = FALSE /\ calls = 0 /\ base = NoFiles
    /\ unreadable = {} /\ wk = NoWalk

\* stop functions: nil, or the closure of RunCommand that kills process pid
Nil == [kind |-> "nil", pid |-> 0]

Kill(pid) == [kind |-> "kill", pid |-> pid]

\* errors: nil, the error of build function k, the error of the run function
NoErr == [kind |-> "nil", k |-> 0]

BuildErr(k) == [kind |-> "build", k |-> k]

RunErr == [kind |-> "run", k |-> 0]

EmptyMap == [id \in {} |-> Nil]

NoTick == [evaluated |-> <<>>, failed |-> {}]

NoWatch ==
    /\ config = <<>> /\ actions = <<>>
    /\ pc = "" /\ cur = 0 /\ bi = 0
    /\ stopFuncs = EmptyMap /\ runRet = [stop |-> Nil, err |-> NoErr]
    /\ procs = <<>> /\ running = {} /\ trace = <<>> /\ tick = NoTick

\* the history kept at a call
Called ==
    /\ fresh' = TRUE
    /\ calls' = Min(calls + 1, 2)
    /\ base' = IF fresh THEN fs ELSE base
    /\ UNCHANGED <<walkVars, callVars, watchVars>>

\* the history kept at a mutation; the returned slice is no longer looked at
Touched ==
    /\ changed' = <<>>
    /\ fresh' = FALSE
    /\ base' = IF fresh THEN fs ELSE base
    /\ UNCHANGED <<excludeDirs, prev, calls, walkVars, callVars, watchVars>>

Poll == DetectFunc /\ Called

Create == CreateFile(FilePaths) /\ Touched

Modify == ModifyFile(FilePaths) /\ Touched

Delete == DeleteFile(FilePaths) /\ Touched

Rmdir == RemoveRoot /\ Touched

Mkdir == MakeRoot /\ Touched

InitDetect ==
    /\ NoCall
    /\ NoWatch
    /\ fs = NoFiles
    /\ rootExists \in BOOLEAN
    /\ excludeDirs \in ExcludeChoices
    /\ prev = NoFiles
    /\ changed = <<>>
    /\ fresh = FALSE
    /\ calls = 0
    /\ base = NoFiles
    /\ unreadable = {}
    /\ wk = NoWalk

NextDetect == Poll \/ Create \/ Modify \/ Delete \/ Rmdir \/ Mkdir

SpecDetect == InitDetect /\ [][NextDetect]_vars

-----------------------------------------------------------------------------
(* Properties of the DetectFunc *)

Range(s) == {s[i] : i \in 1..Len(s)}

\* a path lies beneath a directory whose root-relative path matches one of
\* the patterns; the root's own relative path is "."
BeneathExcluded(xd, p) ==
    \/ matchPatterns(xd, Dot)
    \/ \E k \in 1..Len(p) :
           p[k] = Sep /\ matchPatterns(xd, SubSeq(p, 1, k - 1))

\* the paths created, deleted, or with another modification time, between
\* the tree at the previous call and the tree now
NetChanges(before, now) == {p \in FilePaths : before[p] # now[p]}

\* C1: the second and every later call of a DetectFunc returns exactly the
\* paths created, deleted or with a changed modification time since the
\* previous call, each once, without the paths beneath an excluded directory.
C1_DetectReturnsNetChanges ==
    (fresh /\ calls = 2) =>
        /\ Range(changed) =
               {p \in NetChanges(base, fs) : ~BeneathExcluded(excludeDirs, p)}
        /\ Len(changed) = Cardinality(Range(changed))

\* a second call that reports a created, a modified and a deleted file
C1_Witness ==
    /\ fresh /\ calls = 2
    /\ \E p, q, r \in Range(changed) :
           /\ base[p] = 0 /\ fs[p] # 0
           /\ base[q] # 0 /\ fs[q] # 0
           /\ base[r] # 0 /\ fs[r] = 0
    /\ \E p \in NetChanges(base, fs) : BeneathExcluded(excludeDirs, p)

\* C9: no call returns a path beneath a directory whose root-relative path
\* matches an excludeDirs pattern.
C9_NoPathBeneathExcludedDir ==
    fresh => \A p \in Range(changed) : ~BeneathExcluded(excludeDirs, p)

\* a call that returns a path although another changed path lies beneath an
\* excluded directory that is not the root
C9_Witness ==
    /\ fresh
    /\ changed # <<>>
    /\ \E p \in NetChanges(base, fs) : BeneathExcluded(excludeDirs, p)

\* C10: a call made when the root is empty or missing, the root having been
\* empty or missing at the call before it (or there being none), returns the
\* empty slice.
C10_EmptyRootNoChanges ==
    (fresh /\ Files(base) = {} /\ Files(fs) = {}) => changed = <<>>

\* a second call on a root that does not exist
C10_Witness ==
    fresh /\ calls = 2 /\ ~rootExists /\ Files(base) = {} /\ changed = <<>>

\* C11: the first call of a DetectFunc returns every file under the root
\* that is not beneath an excluded directory, each once, and nothing else.
C11_FirstCallReturnsEveryFile ==
    (fresh /\ calls = 1) =>
        /\ Range(changed) = {p \in Files(fs) : ~BeneathExcluded(excludeDirs, p)}
        /\ Len(changed) = Cardinality(Range(changed))

\* a first call on a tree with a file in the root, a file in a directory and
\* a file beneath an excluded directory
C11_Witness ==
    /\ fresh /\ calls = 1
    /\ <<"b">> \in Range(changed)
    /\ <<"a", "/", "a">> \in Range(changed)
    /\ fs[<<"a", "/", "b", "/", "a">>] # 0
    /\ <<"a", "/", "b", "/", "a">> \notin Range(changed)

\* a path lies beneath a directory other than the root whose root-relative
\* path matches one of the patterns
BeneathExcludedSubdir(xd, p) ==
    \E k \in 1..Len(p) :
        p[k] = Sep /\ matchPatterns(xd, SubSeq(p, 1, k - 1))

\* C19: the root is not tested against the excludeDirs patterns: also when
\* a pattern matches the root's relative path ".", the first call returns
\* every file that is not beneath an excluded directory below the root.
C19_RootNeverExcluded ==
    (fresh /\ calls = 1) =>
        \A p \in Files(fs) :
            ~BeneathExcludedSubdir(excludeDirs, p) => p \in Range(changed)


\* how often the name p is in the slice s
Count(s, p) == Cardinality({i \in 1..Len(s) : s[i] = p})

\* C24: a poll that finds a file of the snapshot deleted returns its name
\* exactly once and stores a snapshot without it; a poll that finds a file
\* absent that the snapshot does not have, as after that poll, does not
\* return its name, until the file is created again. (The polls are the
\* steps that end with fresh.)
C24_DeletedReportedOnce ==
    [][fresh' =>
          \A p \in FilePaths :
              fs'[p] = 0 =>
                  /\ prev'[p] = 0
                  /\ Count(changed', p) = (IF prev[p] # 0 THEN 1 ELSE 0)]_vars

\* a second poll has returned a file that the first poll recorded and that
\* was deleted since, while another file is still there
C24_Witness ==
    /\ fresh /\ calls = 2
    /\ \E p, q \in FilePaths :
           /\ base[p] # 0 /\ fs[p] = 0
           /\ Count(changed, p) = 1
           /\ prev[p] = 0
           /\ prev[q] # 0

-----------------------------------------------------------------------------
(* A DetectFunc whose walk goes entry by entry, the tree changing and       *)
(* directories becoming unreadable in between. filepath.Walk visits a path *)
(* by os.Lstat; for a directory it reads the names, calls the walk function *)
(* with the error of the read, and goes on with the names in lexical order. *)

\* the files and directories of this tree
WalkPaths == { <<"b">>, <<"a", "/", "a">>, <<"a", "/", "b", "/", "a">> }

WalkDirs == { <<"a", "/", "b">> }

WalkExcludes == { <<>>, << <<"a", "/", "b">> >> }

\* os.Lstat(path) for the root (<<>>) or a path below it
Lstat(tree, rootOk, path) ==
    IF path = <<>> THEN (IF rootOk THEN "dir" ELSE "missing")
    ELSE IF IsDir(tree, path) THEN "dir"
    ELSE IF path \in FilePaths /\ tree[path] # 0 THEN "file"
    ELSE "missing"

\* the DetectFunc is called: filepath.Walk starts at the root
WalkBegin ==
    /\ ~wk.active
    /\ wk' = [NoWalk EXCEPT !.active = TRUE, !.stack = << <<>> >>, !.snap = prev]
    /\ changed' = <<>>
    /\ fresh' = FALSE
    /\ UNCHANGED <<fs, rootExists, excludeDirs, prev, calls, base, unreadable,
                   callVars, watchVars>>

\* filepath.Walk visits the next path: the walk function is called with the
\* error of Lstat or of reading the directory, and an error it returns ends
\* the walk
WalkVisit ==
    /\ wk.active
    /\ wk.failed = <<>>
    /\ wk.stack # <<>>
    /\ LET p      == Head(wk.stack)
           kind   == Lstat(fs, rootExists, p)
           st     == [curr |-> wk.curr, changed |-> wk.changed, ret |-> "nil"]
           st1    == CASE kind = "missing" ->
                              walkFn(excludeDirs, prev, p, FALSE, 0, TRUE, st)
                       [] kind = "file" ->
                              walkFn(excludeDirs, prev, p, FALSE, fs[p], FALSE, st)
                       [] kind = "dir" ->
                              walkFn(excludeDirs, prev, p, TRUE, 0, p \in unreadable, st)
           sorted == SortNames(DirNames(fs, p))
           names  == [i \in 1..Len(sorted) |-> Join(p, sorted[i])]
       IN  wk' = [wk EXCEPT
                     !.curr    = st1.curr,
                     !.changed = st1.changed,
                     !.failed  = IF st1.ret = "err" THEN <<p>> ELSE <<>>,
                     !.stack   = IF st1.ret = "err" THEN <<>>
                                 ELSE IF kind = "dir" /\ st1.ret = "nil"
                                           /\ p \notin unreadable
                                      THEN names \o Tail(wk.stack)
                                 ELSE Tail(wk.stack)]
    /\ UNCHANGED <<fs, rootExists, excludeDirs, prev, changed, fresh, calls, base,
                   unreadable, callVars, watchVars>>

\* filepath.Walk has returned: the loop over prev, prev = curr, return
WalkEnd ==
    /\ wk.active
    /\ wk.failed # <<>> \/ wk.stack = <<>>
    /\ \E del \in Orderings(Deleted(prev, wk.curr)) :
           changed' = wk.changed \o del
    /\ prev' = NextPrev(prev, wk.curr)
    /\ wk' = [wk EXCEPT !.active = FALSE, !.stack = <<>>,
                        !.curr = NoFiles, !.changed = <<>>]
    /\ fresh' = TRUE
    /\ calls' = Min(calls + 1, 2)
    /\ UNCHANGED <<fs, rootExists, excludeDirs, base, unreadable, callVars, watchVars>>

\* the history kept at a change of the paths in S
WalkTouched(S) ==
    /\ wk' = IF wk.active THEN [wk EXCEPT !.touched = @ \cup S] ELSE NoWalk
    /\ changed' = <<>>
    /\ fresh' = FALSE
    /\ UNCHANGED <<excludeDirs, prev, calls, base, callVars, watchVars>>

WalkCreate ==
    \E p \in WalkPaths : CreateFile({p}) /\ WalkTouched({p}) /\ UNCHANGED unreadable

WalkModify ==
    \E p \in WalkPaths : ModifyFile({p}) /\ WalkTouched({p}) /\ UNCHANGED unreadable

WalkDelete ==
    \E p \in WalkPaths : DeleteFile({p}) /\ WalkTouched({p}) /\ UNCHANGED unreadable

\* a directory loses or regains the permission to read it
WalkChmod ==
    \E d \in WalkDirs :
        /\ IsDir(fs, d)
        /\ unreadable' = IF d \in unreadable THEN unreadable \ {d}
                          ELSE unreadable \cup {d}
        /\ WalkTouched({p \in WalkPaths : IsPrefixDir(d, p)})
        /\ UNCHANGED <<fs, rootExists>>

InitWalk ==
    /\ NoCall
    /\ NoWatch
    /\ fs = NoFiles
    /\ rootExists = TRUE
    /\ excludeDirs \in WalkExcludes
    /\ prev = NoFiles
    /\ changed = <<>>
    /\ fresh = FALSE
    /\ calls = 0
    /\ base = NoFiles
    /\ unreadable = {}
    /\ wk = NoWalk

NextWalk ==
    \/ WalkBegin
    \/ WalkVisit
    \/ WalkEnd
    \/ WalkCreate
    \/ WalkModify
    \/ WalkDelete
    \/ WalkChmod

SpecWalk == InitWalk /\ [][NextWalk]_vars

\* the path is the entry, or lies beneath it
Within(entry, p) == p = entry \/ IsPrefixDir(entry, p)

\* C14: when the walk of a call got an error for one entry, every file
\* outside that entry and outside the excluded directories, that was there
\* unchanged while the walk was under way, is in the snapshot the call
\* leaves (so that it is not reported as deleted now or as created next).
C14_WalkErrorSparesTheRest ==
    (fresh /\ wk.failed # <<>>) =>
        \A p \in Files(fs) :
            (/\ p \notin wk.touched
             /\ ~Within(wk.failed[1], p)
             /\ ~BeneathExcluded(excludeDirs, p))
                => prev[p] = fs[p]

\* C16: a file that a change made while the previous call was under way,
\* or after it, has left different from the snapshot that call stored, and
\* that nothing changes while the next call is under way, is returned by
\* the next call (files beneath an excluded or unreadable directory aside).
C16_MidTickChangeReportedNext ==
    fresh =>
        \A p \in FilePaths :
            (/\ p \notin wk.touched
             /\ fs[p] # wk.snap[p]
             /\ ~BeneathExcluded(excludeDirs, p)
             /\ \A d \in unreadable : ~IsPrefixDir(d, p))
                => p \in Range(changed)

-----------------------------------------------------------------------------
(* Filter *)

\* Filter with the include test first: an excluded file that is included fires
FilterIncludeFirst(includePatterns, excludePatterns, files) ==
    \E i \in 1..Len(files) : matchPatterns(includePatterns, files[i])

RECURSIVE Filter(_, _, _)
\* the FilterFunc returned by Filter(includePatterns, excludePatterns),
\* applied to files
Filter(includePatterns, excludePatterns, files) ==
    IF files = <<>> THEN FALSE
    ELSE IF matchPatterns(excludePatterns, Head(files))
         THEN Filter(includePatterns, excludePatterns, Tail(files))
    ELSE IF matchPatterns(includePatterns, Head(files))
         THEN TRUE
    ELSE Filter(includePatterns, excludePatterns, Tail(files))

SeqsUpTo(S, n) == UNION {[1..k -> S] : k \in 0..n}

\* the patterns and the file names Filter is called with
FilterPatterns == { <<"*">>, <<"*", "a">>, <<"b">> }

FilterFiles == { <<"a">>, <<"b">>, <<"b", "a">>, <<"c">> }

InitFilter ==
    /\ arg \in [includes : SeqsUpTo(FilterPatterns, MaxPatterns),
                excludes : SeqsUpTo(FilterPatterns, MaxPatterns),
                files    : SeqsUpTo(FilterFiles, MaxFiles)]
    /\ ret = <<>>
    /\ NoDetect
    /\ NoWatch

CallFilter ==
    /\ ret = <<>>
    /\ ret' = <<Filter(arg.includes, arg.excludes, arg.files)>>
    /\ UNCHANGED <<arg, detectVars, watchVars>>

NextFilter == CallFilter

SpecFilter == InitFilter /\ [][NextFilter]_vars

\* C4: Filter returns true exactly when some file matches an include pattern
\* and no exclude pattern, whatever the order of the files.
C4_FilterIffIncludedNotExcluded ==
    ret # <<>> =>
        ret[1] = (\E f \in Range(arg.files) :
                      /\ matchPatterns(arg.includes, f)
                      /\ ~matchPatterns(arg.excludes, f))

\* Filter has returned true for a list whose first file matches an include
\* and an exclude pattern
C4_Witness ==
    /\ ret = <<TRUE>>
    /\ Len(arg.files) = 2
    /\ matchPatterns(arg.includes, arg.files[1])
    /\ matchPatterns(arg.excludes, arg.files[1])

-----------------------------------------------------------------------------
(* parseActions *)

Digits == <<"0", "1", "2", "3", "4", "5", "6", "7", "8", "9">>

RECURSIVE Itoa(_)
\* fmt.Sprintf("%d", n) for n >= 0
Itoa(n) ==
    IF n < 10 THEN Digits[n + 1]
    ELSE Itoa(n \div 10) \o Digits[(n % 10) + 1]

\* actionID with the loop index itself as the position
actionIDZeroBased(name, i, ids) ==
    IF name = "" THEN Itoa(i)
    ELSE IF name \in ids THEN name \o "-" \o Itoa(i)
    ELSE name

\* the ID parseActions gives the action with this name at loop index i
\* (counted from 0), ids being the names of the actions before it
actionID(name, i, ids) ==
    IF name = "" THEN Itoa(i + 1)
    ELSE IF name \in ids THEN name \o "-" \o Itoa(i + 1)
    ELSE name

\* the action parseActions builds from one configured Action: BuildFuncs are
\* the build commands, RunFunc is <<>> (nil) or the run command
parseAction(a, id) ==
    [ID         |-> id,
     Name       |-> a.Name,
     Filter     |-> [includes |-> a.Patterns, excludes |-> a.ExcludePatterns],
     BuildFuncs |-> a.BuildCommands,
     RunFunc    |-> IF a.RunCommand = "" THEN <<>> ELSE <<a.RunCommand>>]

RECURSIVE parseLoop(_, _, _, _)
\* the loop of parseActions from index i on
parseLoop(cfg, i, ids, acts) ==
    IF i >= Len(cfg) THEN acts
    ELSE LET a == cfg[i + 1]
         IN  parseLoop(cfg, i + 1, ids \cup {a.Name},
                       Append(acts, parseAction(a, actionID(a.Name, i, ids))))

parseActions(cfg) == parseLoop(cfg, 0, {}, <<>>)

\* the configured actions parseActions is called with
ParseNames == {"", "a", "2", "a-2"}

ParseInputs ==
    [Name            : ParseNames,
     Patterns        : { << <<"*", "*", "/", "*">> >> },
     ExcludePatterns : { <<>> },
     BuildCommands   : { <<"b">> },
     RunCommand      : {"", "r"}]

InitParse ==
    /\ arg \in SeqsUpTo(ParseInputs, MaxActions)
    /\ ret = <<>>
    /\ NoDetect
    /\ NoWatch

CallParseActions ==
    /\ ret = <<>>
    /\ ret' = <<parseActions(arg)>>
    /\ UNCHANGED <<arg, detectVars, watchVars>>

NextParse == CallParseActions

SpecParse == InitParse /\ [][NextParse]_vars

\* C6: the IDs parseActions computes are pairwise distinct.
C6_ActionIDsDistinct ==
    ret # <<>> =>
        \A p, q \in 1..Len(ret[1]) : p # q => ret[1][p].ID # ret[1][q].ID

\* C7: the action at position p gets the decimal p when unnamed, its name
\* when no earlier action has that name, and name-p otherwise; parseActions
\* returns one action per configured action, in order.
C7_ActionIDRule ==
    ret # <<>> =>
        /\ Len(ret[1]) = Len(arg)
        /\ \A p \in 1..Len(arg) :
               /\ ret[1][p].Name = arg[p].Name
               /\ ret[1][p].RunFunc = <<>> <=> arg[p].RunCommand = ""
               /\ ret[1][p].ID =
                      IF arg[p].Name = "" THEN Itoa(p)
                      ELSE IF \E q \in 1..(p - 1) : arg[q].Name = arg[p].Name
                           THEN arg[p].Name \o "-" \o Itoa(p)
                      ELSE arg[p].Name

\* parseActions has returned for an unnamed action, a first use of a name
\* and a repeated name
C7_Witness ==
    /\ ret # <<>>
    /\ Len(arg) = 3
    /\ \E p, q, r \in 1..3 :
           /\ ret[1][p].ID = "a"
           /\ ret[1][q].ID = "a-3"
           /\ ret[1][r].ID = "2" /\ arg[r].Name = ""

-----------------------------------------------------------------------------
(* ParseConfig: validate and setDefaults on the Config yaml.Unmarshal gives *)

\* validate looking at the first action only
validateFirstOnly(cfg) ==
    IF Len(cfg.Actions) = 0 THEN "config should have at least one action"
    ELSE IF Len(cfg.Actions[1].BuildCommands) = 0 /\ cfg.Actions[1].RunCommand = ""
         THEN "every action should have at least one run or build command"
    ELSE "nil"

RECURSIVE validateLoop(_)
\* the loop of validate over the actions: the error of the first action with
\* no build command and no run command
validateLoop(acts) ==
    IF acts = <<>> THEN "nil"
    ELSE IF Len(Head(acts).BuildCommands) = 0 /\ Head(acts).RunCommand = ""
         THEN "every action should have at least one run or build command"
    ELSE validateLoop(Tail(acts))

\* Config.validate; a nil slice and an empty one are both <<>>
validate(cfg) ==
    IF Len(cfg.Actions) = 0 THEN "config should have at least one action"
    ELSE validateLoop(cfg.Actions)

DefaultInterval == 500

\* the default of Patterns, every file in every directory
AnyFile == <<"*", "*", "/", "*">>

\* Config.setDefaults
setDefaults(cfg) ==
    [Dir      |-> IF cfg.Dir = "" THEN "." ELSE cfg.Dir,
     Interval |-> IF cfg.Interval = 0 THEN DefaultInterval ELSE cfg.Interval,
     Actions  |-> [i \in 1..Len(cfg.Actions) |->
                      IF Len(cfg.Actions[i].Patterns) = 0
                      THEN [cfg.Actions[i] EXCEPT !.Patterns = <<AnyFile>>]
                      ELSE cfg.Actions[i]]]

\* ParseConfig on content that yaml.Unmarshal rejects (unmarshalled = <<>>)
\* or decodes into the Config unmarshalled[1]; config = <<>> stands for nil
ParseConfig(unmarshalled) ==
    IF unmarshalled = <<>>
    THEN [config |-> <<>>, err |-> "Error parsing config"]
    ELSE IF validate(unmarshalled[1]) # "nil"
         THEN [config |-> <<>>, err |-> validate(unmarshalled[1])]
    ELSE [config |-> <<setDefaults(unmarshalled[1])>>, err |-> "nil"]

\* the actions a configuration file may hold
ConfigActions ==
    [Name            : {""},
     Patterns        : { <<>>, << <<"a">> >> },
     ExcludePatterns : { <<>> },
     BuildCommands   : { <<>>, <<"">>, <<"b">> },
     RunCommand      : {"", "r"}]

ConfigInputs ==
    [Dir : {"", "d"}, Interval : {0, 1}, Actions : SeqsUpTo(ConfigActions, MaxActions)]

InitConfig ==
    /\ arg \in {<<>>} \cup {<<c>> : c \in ConfigInputs}
    /\ ret = <<>>
    /\ NoDetect
    /\ NoWatch

CallParseConfig ==
    /\ ret = <<>>
    /\ ret' = <<ParseConfig(arg)>>
    /\ UNCHANGED <<arg, detectVars, watchVars>>

NextConfig == CallParseConfig

SpecConfig == InitConfig /\ [][NextConfig]_vars

\* an action with neither a build command nor a non-empty run command
NoCommand(a) == Len(a.BuildCommands) = 0 /\ a.RunCommand = ""

\* C17: ParseConfig returns an error and no Config when the decoded
\* configuration has no action or has an action with neither a build command
\* nor a run command; a Config it returns without error has at least one
\* action, and each of its actions has a build command or a run command.
C17_ParseConfigValidates ==
    ret # <<>> =>
        /\ (arg # <<>> /\ (Len(arg[1].Actions) = 0
                            \/ \E i \in 1..Len(arg[1].Actions) : NoCommand(arg[1].Actions[i])))
               => (ret[1].err # "nil" /\ ret[1].config = <<>>)
        /\ ret[1].err = "nil" =>
               /\ ret[1].config # <<>>
               /\ Len(ret[1].config[1].Actions) >= 1
               /\ \A i \in 1..Len(ret[1].config[1].Actions) :
                      ~NoCommand(ret[1].config[1].Actions[i])

\* ParseConfig has returned an error for a configuration whose first action
\* has a build command only, whose second has a run command only and whose
\* third has no command
C17_Witness ==
    /\ ret # <<>>
    /\ arg # <<>>
    /\ Len(arg[1].Actions) = 3
    /\ Len(arg[1].Actions[1].BuildCommands) = 1 /\ arg[1].Actions[1].RunCommand = ""
    /\ Len(arg[1].Actions[2].BuildCommands) = 0 /\ arg[1].Actions[2].RunCommand = "r"
    /\ NoCommand(arg[1].Actions[3])
    /\ ret[1].err # "nil"

-----------------------------------------------------------------------------
(* BuildCommand, RunCommand and Run *)

\* the stop function of RunCommand invoked: cmd.Process.Kill()
Invoke(h, ps) ==
    IF h.kind = "kill"
    THEN [ps EXCEPT ![h.pid].live = FALSE, ![h.pid].stops = @ + 1]
    ELSE ps

\* Run going on after a build function that failed
RunBuildIgnoreErr(k, ok) == <<>>

\* Run after build function k returned: <<>> to go on with the loop, or
\* <<what Run returns>>
RunBuildResult(k, ok) ==
    IF ok THEN <<>> ELSE <<[stop |-> Nil, err |-> BuildErr(k)]>>

\* what Run returns when run is nil
RunNoRun == [stop |-> Nil, err |-> NoErr]

\* a RunFunc whose stop function kills the process of the first call, as
\* with one cmd shared by all calls
RunCommandSharedCmd(ok, pid) ==
    IF ok THEN [stop |-> Kill(1), err |-> NoErr]
    ELSE [stop |-> Nil, err |-> RunErr]

\* a RunFunc that returns no stop function for the process it started
RunCommandNoHandle(ok, pid) ==
    [stop |-> Nil, err |-> IF ok THEN NoErr ELSE RunErr]

\* what the RunFunc of RunCommand returns: cmd.Start has started process pid,
\* or has failed
RunCommandResult(ok, pid) ==
    IF ok THEN [stop |-> Kill(pid), err |-> NoErr]
    ELSE [stop |-> Nil, err |-> RunErr]

runFrame == UNCHANGED <<detectVars, callVars, config, actions, cur, stopFuncs, tick>>

\* build function k has returned, with or without an error: Run goes on
\* with the next one or returns the error. exit says how the command of a
\* BuildCommand ended ("nolaunch", "0", "1"), "stub" for any other function
BuildReturned(k, ok, exit) ==
    /\ trace' = Append(trace, [a |-> cur, op |-> "build", k |-> k, ok |-> ok,
                               exit |-> exit])
    /\ LET r == RunBuildResult(k, ok)
       IN  IF r = <<>>
           THEN bi' = k + 1 /\ pc' = "Run" /\ UNCHANGED runRet
           ELSE pc' = "returned" /\ runRet' = r[1] /\ UNCHANGED bi

\* Run invokes the build function at bi, which succeeds or fails
RunBuild(builds, ok) ==
    /\ pc = "Run"
    /\ bi <= Len(builds)
    /\ BuildReturned(bi, ok, "stub")
    /\ UNCHANGED <<procs, running>>
    /\ runFrame

\* cmd.Start in place of cmd.Run: the BuildFunc returns nil once the command
\* is launched and does not wait for it
cmdStart(launched) == IF launched THEN "nil" ELSE "err"

\* cmd.Run as the BuildFunc of BuildCommand sees it: the command cannot be
\* launched ("err"), or it is launched and cmd.Run waits for its exit ("wait")
cmdRun(launched) == IF launched THEN "wait" ELSE "err"

\* a BuildFunc that takes any exit status for a success
BuildFuncOkAnyExit(exit) == TRUE

\* whether the BuildFunc returns nil for a command that exited: cmd.Run
\* gives an error for every exit status but zero
BuildFuncOk(exit) == exit = "0"

\* Run invokes the BuildFunc of BuildCommand at bi: the command is launched
\* and runs, or cannot be launched and the BuildFunc returns the error
BuildStart(builds) ==
    /\ pc = "Run"
    /\ bi <= Len(builds)
    /\ \E launched \in BOOLEAN :
           LET r == cmdRun(launched)
               p == [a |-> cur, k |-> bi]
           IN  CASE r = "wait" ->
                        /\ running' = running \cup {p}
                        /\ pc' = "build"
                        /\ UNCHANGED <<bi, runRet, trace>>
                 [] r = "err" ->
                        /\ BuildReturned(bi, FALSE, "nolaunch")
                        /\ UNCHANGED running
                 [] r = "nil" ->
                        /\ running' = running \cup {p}
                        /\ BuildReturned(bi, TRUE, "nowait")
    /\ UNCHANGED procs
    /\ runFrame

\* the command of the BuildFunc at bi exits and cmd.Run returns
BuildWait(builds) ==
    /\ pc = "build"
    /\ \E exit \in {"0", "1"} :
           /\ running' = running \ {[a |-> cur, k |-> bi]}
           /\ BuildReturned(bi, BuildFuncOk(exit), exit)
    /\ UNCHANGED procs
    /\ runFrame

\* Run, past the builds, with run = nil
RunNil(builds, run) ==
    /\ pc = "Run"
    /\ bi > Len(builds)
    /\ run = <<>>
    /\ runRet' = RunNoRun
    /\ pc' = "returned"
    /\ UNCHANGED <<bi, procs, running, trace>>
    /\ runFrame

\* cmd.Run in place of cmd.Start: the RunFunc waits for the exit of the
\* process it launched, which runs like a daemon
RunFuncWaits(ok) == IF ok THEN "wait" ELSE "returned"

\* where the RunFunc of RunCommand goes on after cmd.Start: it returns, the
\* process launched or not
RunFuncReturns(ok) == "returned"

\* Run, past the builds, invokes run, which starts a process or fails
RunStart(builds, run, id, ok) ==
    /\ pc = "Run"
    /\ bi > Len(builds)
    /\ run # <<>>
    /\ ok => Len(procs) < MaxProcs
    /\ trace' = Append(trace, [a |-> cur, op |-> "run", k |-> 0, ok |-> ok])
    /\ procs' = IF ok
                THEN Append(procs, [id |-> id, a |-> cur, live |-> TRUE, stops |-> 0])
                ELSE procs
    /\ runRet' = RunCommandResult(ok, Len(procs) + 1)
    /\ pc' = RunFuncReturns(ok)
    /\ UNCHANGED <<bi, running>>
    /\ runFrame

-----------------------------------------------------------------------------
(* Run on its own, called with stub build and run functions: arg.builds     *)
(* says which builds succeed, arg.run is "nil", "ok" or "fail"             *)

StubRunFunc == IF arg.run = "nil" THEN <<>> ELSE <<arg.run>>

InitRun ==
    /\ arg \in [builds : SeqsUpTo(BOOLEAN, MaxBuilds), run : {"nil", "ok", "fail"}]
    /\ ret = <<>>
    /\ NoDetect
    /\ config = <<>> /\ actions = <<>>
    /\ pc = "Run" /\ cur = 1 /\ bi = 1
    /\ stopFuncs = EmptyMap /\ runRet = [stop |-> Nil, err |-> NoErr]
    /\ procs = <<>> /\ running = {} /\ trace = <<>> /\ tick = NoTick

StubBuild ==
    /\ bi <= Len(arg.builds)
    /\ RunBuild(arg.builds, arg.builds[bi])

StubNoRun == RunNil(arg.builds, StubRunFunc)

StubRun == RunStart(arg.builds, StubRunFunc, "", arg.run = "ok")

\* the caller invokes the stop function it got, when it is not nil
CallStop ==
    /\ pc = "returned"
    /\ runRet.err = NoErr
    /\ runRet.stop # Nil
    /\ procs' = Invoke(runRet.stop, procs)
    /\ pc' = "stopped"
    /\ UNCHANGED <<bi, runRet, running, trace>>
    /\ runFrame

NextRun == StubBuild \/ StubNoRun \/ StubRun \/ CallStop

SpecRun == InitRun /\ [][NextRun]_vars

\* C3: Run invokes the build functions in list order, and when one fails it
\* returns that error with no later build function and no run function
\* invoked.
C3_RunStopsAtFirstFailure ==
    /\ \A j \in 1..Len(trace) :
           /\ trace[j].op = "build" =>
                  trace[j].k = j /\ trace[j].ok = arg.builds[j]
           /\ (trace[j].op = "build" /\ ~trace[j].ok) =>
                  /\ Len(trace) = j
                  /\ pc = "returned"
                  /\ runRet = [stop |-> Nil, err |-> BuildErr(j)]
    /\ (pc = "returned" /\ \A j \in 1..Len(arg.builds) : arg.builds[j]) =>
           \A j \in 1..Len(arg.builds) : trace[j].op = "build"

\* Run has returned the error of the second of three build functions
C3_Witness ==
    /\ pc = "returned"
    /\ Len(arg.builds) = 3
    /\ arg.run = "ok"
    /\ runRet.err = BuildErr(2)
    /\ Len(trace) = 2

\* C8: Run(builds, nil) with every build succeeding returns no error and a
\* stop function that is not nil, so that it can be invoked.
C8_NoRunReturnsCallableStop ==
    (/\ pc = "returned"
     /\ arg.run = "nil"
     /\ \A j \in 1..Len(arg.builds) : arg.builds[j]) =>
        runRet.err = NoErr /\ runRet.stop # Nil

-----------------------------------------------------------------------------
(* Watch *)

\* the files that change while Watch runs
WatchPaths == { <<"a">>, <<"b">> }

\* the configurations Watch is started with, validated and with defaults set
WatchConfigs ==
    { \* one unnamed action with the default pattern, a build and a run command
      << [Name |-> "", Patterns |-> <<AnyFile>>, ExcludePatterns |-> <<>>,
          BuildCommands |-> <<"b1">>, RunCommand |-> "r"] >>,
      \* a run-only action on a, and a build-only action on all files but a
      << [Name |-> "", Patterns |-> << <<"a">> >>, ExcludePatterns |-> <<>>,
          BuildCommands |-> <<>>, RunCommand |-> "r"],
         [Name |-> "", Patterns |-> << <<"*">> >>, ExcludePatterns |-> << <<"a">> >>,
          BuildCommands |-> <<"b1", "b2">>, RunCommand |-> ""] >>,
      \* an action named "2" before an unnamed second action
      << [Name |-> "2", Patterns |-> << <<"a">> >>, ExcludePatterns |-> <<>>,
          BuildCommands |-> <<"b1">>, RunCommand |-> "r"],
         [Name |-> "", Patterns |-> << <<"*">> >>, ExcludePatterns |-> <<>>,
          BuildCommands |-> <<>>, RunCommand |-> "r"] >>,
      \* two actions of the same name
      << [Name |-> "x", Patterns |-> << <<"*">> >>, ExcludePatterns |-> <<>>,
          BuildCommands |-> <<>>, RunCommand |-> "r"],
         [Name |-> "x", Patterns |-> << <<"b">> >>, ExcludePatterns |-> <<>>,
          BuildCommands |-> <<"b1">>, RunCommand |-> "r"] >> }

\* stopFuncs[id], nil when the map has no such key
StopOf(sf, id) == IF id \in DOMAIN sf THEN sf[id] ELSE Nil

\* stopFuncs[id] = h
Put(sf, id, h) ==
    [k \in DOMAIN sf \cup {id} |-> IF k = id THEN h ELSE sf[k]]

\* Watch never invoking the stop function of the previous run
WatchNeverStops(h) == FALSE

\* whether Watch invokes the stop function it finds for the action
WatchStops(h) == h # Nil

\* Watch returning the error of Run
WatchReturnsErr(err) == IF err = NoErr THEN "range" ELSE "done"

\* where Watch goes on after Run returned err: the next action, in both cases
WatchAfterRun(err) == "range"

\* Watch going through the actions also when nothing changed
WatchRangesAlways(changes) == "range"

\* where Watch goes on after detect(): to the sleep when nothing changed
WatchAfterDetect(changes) == IF changes = <<>> THEN "sleep" ELSE "range"

\* Watch keeping the old entry of the map when Run returned an error
WatchStoredOnSuccess(sf, id, res) ==
    IF res.err = NoErr THEN Put(sf, id, res.stop) ELSE sf

\* stopFuncs after `stopFuncs[action.ID], err = Run(...)`
WatchStored(sf, id, res) == Put(sf, id, res.stop)

InitWatch ==
    /\ NoCall
    /\ NoDetect
    /\ config \in WatchConfigs
    /\ actions = parseActions(config)
    /\ pc = "detect" /\ cur = 0 /\ bi = 0
    /\ stopFuncs = EmptyMap /\ runRet = [stop |-> Nil, err |-> NoErr]
    /\ procs = <<>> /\ running = {} /\ trace = <<>> /\ tick = NoTick

\* Watch polling once before the loop and discarding the result: what the
\* first call of detect returns is taken for no change
WatchChangesButFirst(n, detected) == IF n = 0 THEN <<>> ELSE detected

\* changes := detect(), after n earlier calls: what detect returned
WatchChanges(n, detected) == detected

\* changes := detect(); an empty result goes to the sleep, any other to the
\* loop over the actions. calls counts the polls: none, one, more
WatchDetect ==
    /\ pc = "detect"
    /\ DetectFunc
    /\ calls' = Min(calls + 1, 2)
    /\ pc' = WatchAfterDetect(WatchChanges(calls, changed'))
    /\ cur' = 1
    /\ trace' = <<>>
    /\ tick' = NoTick
    /\ UNCHANGED <<fresh, base, walkVars, callVars, config, actions, bi,
                   stopFuncs, runRet, procs, running>>

\* time.Sleep(config.Interval), then the next iteration
WatchSleep ==
    /\ pc = "sleep"
    /\ pc' = "detect"
    /\ UNCHANGED <<detectVars, callVars, config, actions, cur, bi, stopFuncs,
                   runRet, procs, running, trace, tick>>

\* the loop over the actions is through
WatchEndRange ==
    /\ pc = "range"
    /\ cur > Len(actions)
    /\ pc' = "sleep"
    /\ UNCHANGED <<detectVars, callVars, config, actions, cur, bi, stopFuncs,
                   runRet, procs, running, trace, tick>>

\* action.Filter(changes): continue with the next action when it is false
WatchFilter ==
    /\ pc = "range"
    /\ cur <= Len(actions)
    /\ tick' = [tick EXCEPT !.evaluated = Append(@, [a |-> cur, files |-> changed])]
    /\ IF Filter(actions[cur].Filter.includes, actions[cur].Filter.excludes, changed)
       THEN pc' = "stop" /\ UNCHANGED cur
       ELSE cur' = cur + 1 /\ UNCHANGED pc
    /\ UNCHANGED <<detectVars, callVars, config, actions, bi, stopFuncs,
                   runRet, procs, running, trace>>

\* the stop function stored for the action's ID is invoked when it is not
\* nil; then Run is called
WatchStop ==
    /\ pc = "stop"
    /\ LET h == StopOf(stopFuncs, actions[cur].ID)
       IN  IF WatchStops(h)
           THEN /\ procs' = Invoke(h, procs)
                /\ trace' = Append(trace, [a |-> cur, op |-> "stop", k |-> h.pid, ok |-> TRUE])
           ELSE UNCHANGED <<procs, trace>>
    /\ pc' = "Run"
    /\ bi' = 1
    /\ UNCHANGED <<detectVars, callVars, config, actions, cur, stopFuncs,
                   runRet, running, tick>>

WatchBuildStart ==
    /\ pc = "Run"
    /\ BuildStart(actions[cur].BuildFuncs)

WatchBuildWait ==
    /\ pc = "build"
    /\ BuildWait(actions[cur].BuildFuncs)

WatchRunNil ==
    /\ pc = "Run"
    /\ RunNil(actions[cur].BuildFuncs, actions[cur].RunFunc)

WatchRunStart ==
    /\ pc = "Run"
    /\ \E ok \in BOOLEAN :
           RunStart(actions[cur].BuildFuncs, actions[cur].RunFunc, actions[cur].ID, ok)

\* stopFuncs[action.ID], err = Run(...); on an error printErr and continue
WatchStore ==
    /\ pc = "returned"
    /\ stopFuncs' = WatchStored(stopFuncs, actions[cur].ID, runRet)
    /\ tick' = IF runRet.err = NoErr THEN tick
               ELSE [tick EXCEPT !.failed = @ \cup {cur}]
    /\ pc' = WatchAfterRun(runRet.err)
    /\ cur' = cur + 1
    /\ UNCHANGED <<detectVars, callVars, config, actions, bi, runRet, procs,
                   running, trace>>

\* the tree changes while Watch runs
WatchTouch ==
    /\ pc # "done"
    /\ \/ CreateFile(WatchPaths)
       \/ ModifyFile(WatchPaths)
       \/ DeleteFile(WatchPaths)
    /\ UNCHANGED <<excludeDirs, prev, changed, fresh, calls, base, walkVars,
                   callVars, watchVars>>

Init == InitWatch

Next ==
    \/ WatchDetect
    \/ WatchSleep
    \/ WatchEndRange
    \/ WatchFilter
    \/ WatchStop
    \/ WatchBuildStart
    \/ WatchBuildWait
    \/ WatchRunNil
    \/ WatchRunStart
    \/ WatchStore
    \/ WatchTouch

Spec == Init /\ [][Next]_vars

Live(id) == {p \in 1..Len(procs) : procs[p].live /\ procs[p].id = id}

\* C2: for every action ID at most one process started by a run command is
\* live, and once an action has fired, no process of its ID is live while its
\* build functions and its run function are invoked.
C2_OneLiveProcessPerID ==
    /\ \A p, q \in 1..Len(procs) :
           (procs[p].live /\ procs[q].live /\ procs[p].id = procs[q].id) => p = q
    /\ pc = "Run" => Live(actions[cur].ID) = {}

\* an action fires again: its process has been stopped and a build is next
C2_Witness ==
    /\ pc = "Run"
    /\ bi = 1
    /\ Len(actions[cur].BuildFuncs) > 0
    /\ \E p \in 1..Len(procs) : procs[p].id = actions[cur].ID /\ ~procs[p].live
    /\ \E j \in 1..Len(trace) : trace[j].a = cur /\ trace[j].op = "stop"

\* C5: Watch never returns, and a tick in which Run returned an error has
\* evaluated every action, each against the changes of that tick's poll, when
\* it reaches the sleep before the next poll.
C5_ErrorsDoNotStopTheLoop ==
    /\ pc # "done"
    /\ (pc = "sleep" /\ tick.failed # {}) =>
           /\ Len(tick.evaluated) = Len(actions)
           /\ \A i \in 1..Len(actions) :
                  tick.evaluated[i] = [a |-> i, files |-> changed]

\* the first of two actions failed in a build, the second started its process
C5_Witness ==
    /\ pc = "sleep"
    /\ tick.failed = {1}
    /\ Len(actions) = 2
    /\ \E j \in 1..Len(trace) : trace[j].a = 1 /\ trace[j].op = "build" /\ ~trace[j].ok
    /\ \E j \in 1..Len(trace) : trace[j].a = 2 /\ trace[j].op = "run" /\ trace[j].ok

\* C12: a BuildFunc of BuildCommand that has returned has run its command
\* to the end; it returned an error when the command could not be launched
\* and when it exited with another status than zero, and nil only when the
\* command exited with status zero.
C12_BuildFuncWaitsAndReportsExit ==
    \A j \in 1..Len(trace) :
        trace[j].op = "build" =>
            /\ [a |-> trace[j].a, k |-> trace[j].k] \notin running
            /\ trace[j].exit \in {"nolaunch", "0", "1"}
            /\ trace[j].ok <=> trace[j].exit = "0"

\* in one tick a build command exited with status zero, the next one of the
\* action with another status, and Run has returned its error
C12_Witness ==
    /\ pc = "returned"
    /\ runRet.err = BuildErr(2)
    /\ \E i, j \in 1..Len(trace) :
           /\ trace[i].op = "build" /\ trace[i].exit = "0" /\ trace[i].ok
           /\ trace[j].op = "build" /\ trace[j].exit = "1" /\ ~trace[j].ok

\* C13: a tick whose poll returns no change goes to the sleep with no
\* filter, stop function, build function or run function invoked, and the
\* map of stop functions and the processes are as they were before the poll.
\* (The poll is the step at "detect" that is not a change of the tree.)
C13_EmptyPollInvokesNothing ==
    [][/\ (pc = "detect" /\ fs' = fs /\ changed' = <<>>) =>
              /\ pc' = "sleep"
              /\ tick'.evaluated = <<>>
              /\ trace' = <<>>
              /\ UNCHANGED <<stopFuncs, procs, running>>
       /\ (pc = "sleep" /\ changed = <<>>) =>
              /\ pc' \in {"sleep", "detect"}
              /\ UNCHANGED <<stopFuncs, procs, running, trace, tick>>]_vars

\* a tick with an empty poll, at its sleep, while a process started by an
\* earlier tick is live and the tree has changed again
C13_Witness ==
    /\ pc = "sleep"
    /\ changed = <<>>
    /\ tick.evaluated = <<>>
    /\ \E p \in 1..Len(procs) : procs[p].live /\ StopOf(stopFuncs, procs[p].id) = Kill(p)

\* the action at position i is idle: no stop function is stored for its ID,
\* no process of its ID is live and none of its build commands is executing
Idle(i) ==
    /\ StopOf(stopFuncs, actions[i].ID) = Nil
    /\ Live(actions[i].ID) = {}
    /\ \A p \in running : p.a # i

\* C15: when an action has fired and Run has returned an error, the action
\* is idle once Watch has stored what Run returned.
C15_FailedActionIsIdle ==
    (pc = "range" /\ cur > 1 /\ (cur - 1) \in tick.failed) => Idle(cur - 1)

\* an action whose process was live fired again, its run command could not
\* be launched after its build commands succeeded, and Watch has stored nil
C15_Witness ==
    /\ pc = "range" /\ cur > 1 /\ (cur - 1) \in tick.failed
    /\ \E j \in 1..Len(trace) :
           trace[j].a = cur - 1 /\ trace[j].op = "run" /\ ~trace[j].ok
    /\ \E j \in 1..Len(trace) :
           trace[j].a = cur - 1 /\ trace[j].op = "build" /\ trace[j].ok
    /\ \E j \in 1..Len(trace) :
           trace[j].a = cur - 1 /\ trace[j].op = "stop"

\* the statements of a tick between the poll and the sleep
InTick == pc \in {"range", "stop", "Run", "build", "returned"}

\* whether the filter of the action at position i is true of the changes of
\* the latest poll
Fires(i) ==
    Filter(actions[i].Filter.includes, actions[i].Filter.excludes, changed)

\* C20: in a tick, an action whose filter is false of the tick's changes
\* has none of its build functions and not its run function invoked, keeps
\* its live process, and keeps the stop function stored for its ID,
\* whatever the other actions do.
C20_SkippedActionUntouched ==
    [][InTick =>
          \A i \in 1..Len(actions) :
              ~Fires(i) =>
                  /\ \A j \in 1..Len(trace') : trace'[j].a # i
                  /\ \A p \in 1..Len(procs) :
                         (procs[p].a = i /\ procs[p].live) => procs'[p].live
                  /\ StopOf(stopFuncs', actions[i].ID) =
                         StopOf(stopFuncs, actions[i].ID)]_vars

\* the build commands 1..n of action i have exited with status zero, in
\* this order, among the first m entries of the trace
BuiltBefore(i, n, m) ==
    \E f \in [1..n -> 1..m] :
        /\ \A k \in 1..n :
               /\ trace[f[k]].a = i
               /\ trace[f[k]].op = "build"
               /\ trace[f[k]].k = k
               /\ trace[f[k]].ok
        /\ \A k \in 1..(n - 1) : f[k] < f[k + 1]

\* C18: at most one build command executes at a time, the one Run waits
\* for, and every build command before it in the list has exited with
\* success; the run command is started after all build commands have; the
\* loop polls, filters and sleeps with no build command executing.
C18_BuildsOneAfterAnother ==
    /\ running # {} =>
           /\ pc = "build"
           /\ running = {[a |-> cur, k |-> bi]}
    /\ pc = "build" => BuiltBefore(cur, bi - 1, Len(trace))
    /\ \A j \in 1..Len(trace) :
           trace[j].op = "run" =>
               BuiltBefore(trace[j].a, Len(actions[trace[j].a].BuildFuncs), j - 1)

\* the second build command of an action executes after the first one exited
C18_Witness ==
    /\ pc = "build"
    /\ bi = 2
    /\ running = {[a |-> cur, k |-> 2]}
    /\ trace[Len(trace)] = [a |-> cur, op |-> "build", k |-> 1, ok |-> TRUE, exit |-> "0"]

\* the run command of the action at position i was started in this tick
RunStarted(i) ==
    \E j \in 1..Len(trace) : trace[j].a = i /\ trace[j].op = "run" /\ trace[j].ok

\* C21: when an action with a run command has fired, its builds succeeded
\* and its run command was launched, then once Watch has stored what Run
\* returned, the stop function stored for the action's ID is the one of the
\* process started in this firing, the latest one, which is live, and
\* invoking it terminates that process and no other.
C21_StoredHandleStopsNewProcess ==
    (pc = "range" /\ cur > 1 /\ RunStarted(cur - 1)) =>
        LET h == StopOf(stopFuncs, actions[cur - 1].ID)
        IN  /\ h # Nil
            /\ h = Kill(Len(procs))
            /\ procs[h.pid].a = cur - 1
            /\ procs[h.pid].live
            /\ procs[h.pid].stops = 0
            /\ ~Invoke(h, procs)[h.pid].live
            /\ \A q \in 1..Len(procs) :
                   q # h.pid => Invoke(h, procs)[q] = procs[q]

\* an action whose process was live fired again: the old process was stopped,
\* the build succeeded, and the stop function of the second process is stored
\* while a process of another action is live
C21_Witness ==
    /\ pc = "range" /\ cur > 1 /\ RunStarted(cur - 1)
    /\ Len(procs) = 2
    /\ StopOf(stopFuncs, actions[cur - 1].ID) = Kill(2)
    /\ \E j \in 1..Len(trace) : trace[j].a = cur - 1 /\ trace[j].op = "stop"

\* C25: no stop function returned by a run command is invoked more than
\* once; and between the firings of actions, that is whenever Watch is not
\* between invoking the stored stop function and storing what Run returned,
\* no stop function in the map has been invoked, also after a Run that
\* returned an error.
C25_HandleInvokedAtMostOnce ==
    /\ \A p \in 1..Len(procs) : procs[p].stops <= 1
    /\ pc \in {"detect", "sleep", "range", "stop"} =>
           \A id \in DOMAIN stopFuncs :
               stopFuncs[id] # Nil => procs[stopFuncs[id].pid].stops = 0

\* an action fired again, the stop function of its process was invoked, Run
\* returned an error and Watch has overwritten the entry
C25_Witness ==
    /\ pc = "range" /\ cur > 1 /\ (cur - 1) \in tick.failed
    /\ StopOf(stopFuncs, actions[cur - 1].ID) = Nil
    /\ \E j \in 1..Len(trace) :
           /\ trace[j].a = cur - 1 /\ trace[j].op = "stop"
           /\ procs[trace[j].k].stops = 1
           /\ procs[trace[j].k].id = actions[cur - 1].ID

\* C26: when a tick is through, at the sleep and before the next poll, every
\* process started by a run command whose stop function has not been invoked
\* has that stop function stored in the map under some ID.
C26_NoOrphanedProcess ==
    pc \in {"sleep", "detect"} =>
        \A p \in 1..Len(procs) :
            procs[p].stops = 0 =>
                \E id \in DOMAIN stopFuncs : stopFuncs[id] = Kill(p)

\* at the sleep, the processes of two actions are running, the stop function
\* of each stored under the ID of its action
C26_Witness ==
    /\ pc = "sleep"
    /\ Len(procs) = 2
    /\ procs[1].stops = 0 /\ procs[2].stops = 0
    /\ procs[1].id # procs[2].id
    /\ stopFuncs[procs[1].id] = Kill(1)
    /\ stopFuncs[procs[2].id] = Kill(2)

\* the filter patterns of the action at position i match a file of the tree
Matches(i, tree) ==
    \E f \in Files(tree) :
        /\ matchPatterns(actions[i].Filter.includes, f)
        /\ ~matchPatterns(actions[i].Filter.excludes, f)

\* a build function or the run function of the action at position i was
\* invoked in this tick
Fired(i) ==
    \E j \in 1..Len(trace) : trace[j].a = i /\ trace[j].op \in {"build", "run"}

\* C27: the first tick, when it is through, has taken every file that was in
\* the tree at its poll for a change and has fired exactly the actions whose
\* patterns match one of them, the run function invoked after builds that
\* all succeeded; and in no tick has an action fired whose filter is false
\* of the changes of the latest poll, so that with no matching file at the
\* start nothing fires before a matching change is detected. (prev is the
\* tree as the tick's poll found it.)
C27_FirstPollFires ==
    /\ (pc = "sleep" /\ calls = 1) =>
           /\ Range(changed) = Files(prev)
           /\ \A i \in 1..Len(actions) :
                  /\ Matches(i, prev) <=> Fired(i)
                  /\ (Fired(i) /\ actions[i].RunFunc # <<>>) =>
                         \E j \in 1..Len(trace) :
                             /\ trace[j].a = i
                             /\ \/ trace[j].op = "run"
                                \/ trace[j].op = "build" /\ ~trace[j].ok
    /\ \A i \in 1..Len(actions) : Fired(i) => Fires(i)

\* the first tick is through: of two actions, the one whose patterns match
\* the file that was there at the start has started its process, the other
\* one has not fired
C27_Witness ==
    /\ pc = "sleep" /\ calls = 1
    /\ Len(actions) = 2
    /\ Files(prev) # {}
    /\ \E i, k \in 1..2 :
           /\ RunStarted(i)
           /\ Matches(i, prev)
           /\ ~Matches(k, prev) /\ ~Fired(k)

-----------------------------------------------------------------------------
(* Watch as long as its goroutine is scheduled and the build commands exit *)

\* a statement of Watch that does not wait for anything but the scheduler
\* and the timer of time.Sleep
WatchStep ==
    \/ WatchDetect
    \/ WatchSleep
    \/ WatchEndRange
    \/ WatchFilter
    \/ WatchStop
    \/ WatchBuildStart
    \/ WatchRunNil
    \/ WatchRunStart
    \/ WatchStore

\* a configuration for the runs that are checked to the end of time: an
\* action with a build and a run command, and a build-only action
LiveConfig ==
    << [Name |-> "", Patterns |-> << <<"a">> >>, ExcludePatterns |-> <<>>,
        BuildCommands |-> <<"b1">>, RunCommand |-> "r"],
       [Name |-> "", Patterns |-> <<AnyFile>>, ExcludePatterns |-> <<>>,
        BuildCommands |-> <<"b1">>, RunCommand |-> ""] >>

InitLive ==
    /\ NoCall
    /\ NoDetect
    /\ config = LiveConfig
    /\ actions = parseActions(config)
    /\ pc = "detect" /\ cur = 0 /\ bi = 0
    /\ stopFuncs = EmptyMap /\ runRet = [stop |-> Nil, err |-> NoErr]
    /\ procs = <<>> /\ running = {} /\ trace = <<>> /\ tick = NoTick

\* the one file of the tree changes while Watch runs
LiveTouch ==
    /\ \/ CreateFile({<<"a">>})
       \/ ModifyFile({<<"a">>})
       \/ DeleteFile({<<"a">>})
    /\ UNCHANGED <<excludeDirs, prev, changed, fresh, calls, base, walkVars,
                   callVars, watchVars>>

NextLive == WatchStep \/ WatchBuildWait \/ LiveTouch

\* Watch keeps running, and a build command that executes exits; nothing is
\* assumed of the processes of run commands or of the changes of the tree
SpecLive ==
    InitLive /\ [][NextLive]_vars /\ WF_vars(WatchStep) /\ WF_vars(WatchBuildWait)

\* C22: when every build command exits, Watch polls again and again,
\* whatever run commands it has started and whether or not their processes
\* ever exit.
C22_PollsForever == []<><<WatchDetect>>_vars

\* Watch is about to poll again while the second process it started is live
C22_Witness ==
    /\ pc = "detect"
    /\ Len(procs) = 2
    /\ ~procs[1].live /\ procs[2].live
    /\ StopOf(stopFuncs, actions[1].ID) = Kill(2)

-----------------------------------------------------------------------------
(* parseCommand: a command string is a sequence of characters *)

Space == " "
Tab == "\t"

\* the longest command string
MaxCmdLen == 4

\* the characters of the command strings: a letter, the space and the tab
CommandChars == {"a", Space, Tab}

Commands == SeqsUpTo(CommandChars, MaxCmdLen)

RECURSIVE Split(_, _)

\* strings.Split(s, sep) for a separator of one character: the pieces of s
\* between the separators, the empty ones too; <<s>> when s has none
Split(s, sep) ==
    IF \A i \in 1..Len(s) : s[i] # sep THEN <<s>>
    ELSE LET i == CHOOSE k \in 1..Len(s) :
                      s[k] = sep /\ \A j \in 1..(k - 1) : s[j] # sep
         IN  <<SubSeq(s, 1, i - 1)>> \o Split(SubSeq(s, i + 1, Len(s)), sep)

\* parts := strings.Split(command, " "); return parts[0], parts[1:]
parseCommand(command) ==
    LET parts == Split(command, Space)
    IN  [cmd |-> parts[1], args |-> Tail(parts)]

InitCommand ==
    /\ arg \in Commands
    /\ ret = <<>>
    /\ NoDetect
    /\ NoWatch

CallParseCommand ==
    /\ ret = <<>>
    /\ ret' = <<parseCommand(arg)>>
    /\ UNCHANGED <<arg, detectVars, watchVars>>

NextCommand == CallParseCommand

SpecCommand == InitCommand /\ [][NextCommand]_vars

\* C23: for every command string, those with consecutive, leading or
\* trailing spaces and those with tabs included, parseCommand returns no
\* argument that is the empty string and no token, executable or argument,
\* that contains a space or a tab.
C23_TokensSplitAtWhitespace ==
    ret # <<>> =>
        /\ \A i \in 1..Len(ret[1].args) : ret[1].args[i] # <<>>
        /\ \A t \in {ret[1].cmd} \cup Range(ret[1].args) :
               \A i \in 1..Len(t) : t[i] \notin {Space, Tab}

====
